---- MODULE Spec2Model ----
(***************************************************************************)
(* Model of the coupon optimizer, src/src/lib/optimizer.ts                 *)
(* (calculateOptimization): a bounded knapsack solved by GCD reduction,    *)
(* binary decomposition, a 0/1 DP with a keep table, and a backtrace.      *)
(*                                                                         *)
(* Currency amounts (totalPrice, threshold, discount, and the amounts of   *)
(* the result) are JavaScript numbers; the model writes them as integers   *)
(* in mils (1/1000 of a currency unit), so that amounts below one cent     *)
(* exist and Math.round(x * 100) is a real rounding.  Scaled amounts       *)
(* (W_limit, cost, val, dp) are integers in cents as in the code.  Counts  *)
(* are integers.  NaN, infinities and fractional counts are outside the    *)
(* model.                                                                  *)
(***************************************************************************)
EXTENDS Integers, Sequences, FiniteSets, TLC

VARIABLES
    coupons,            \* argument: Coupon[] (id, threshold, discount, count)
    totalPrice,         \* argument: number (mils)
    pc,                 \* position in calculateOptimization
    W_limit,            \* Math.round(totalPrice * scale)
    validCoupons,       \* coupons that passed the filter
    totalPossibleCost,  \* sum of cost * count over validCoupons
    W,                  \* DP capacity (reduced by commonFactor)
    commonFactor,       \* gcd of W_limit and every valid cost
    items,              \* pseudo-items: cost, val, originalCouponId, realCount
    ci,                 \* expansion loop: index into validCoupons (1-based)
    count,              \* expansion loop: let count
    currentPower,       \* expansion loop: let currentPower
    dp,                 \* Int32Array(W + 1), indexed 0..W
    keep,               \* Uint8Array(n * (W + 1)): the set of flat indices holding 1
    i,                  \* DP loop / reconstruction loop index (0-based, as in the code)
    currW,              \* reconstruction: remaining capacity
    usedCouponsMap,     \* Map<string, number> in insertion order
    result              \* the returned OptimizationResult, NoResult before return

vars == <<coupons, totalPrice, pc, W_limit, validCoupons, totalPossibleCost, W,
          commonFactor, items, ci, count, currentPower, dp, keep, i, currW,
          usedCouponsMap, result>>

-----------------------------------------------------------------------------
(* Bounds of the explored inputs *)

MaxCoupons == 2
MaxCount == 3
MaxBigCount == 9
MaxUnreducedCapacity == 60

(* Program constants *)

MAX_SLOTS == 5000000
Int32Max == 2147483647

WARNING == "Total calculated amount is too high for the browser optimizer."

NoResult == [returned |-> FALSE]

-----------------------------------------------------------------------------
(* Pure helpers *)

\* Math.round(x * scale) with scale = 100, for x in mils: round half up
Round100(x) == (x + 5) \div 10

\* scaled / scale: cents back to currency units (written in mils)
Unscale(s) == s * 10

RECURSIVE gcd(_, _)
gcd(a, b) == IF b = 0 THEN a ELSE gcd(b, a % b)

\* the number a + b is above 2^31 - 1 (b >= 0; written so that no intermediate
\* value leaves the 32-bit integers TLC computes with)
ExceedsInt32(a, b) == a > Int32Max - b

\* dp[w] = a + b, a store into an Int32Array element: a sum above 2^31 - 1
\* wraps around to a + b - 2^32
StoreInt32(a, b) ==
    IF ExceedsInt32(a, b) THEN (a - Int32Max - 1) + (b - Int32Max - 1) ELSE a + b

\* variant of Eligible: the test on the discount is left out
EligibleNoDiscount(c, wl) ==
    /\ c.count > 0
    /\ c.threshold > 0
    /\ Round100(c.threshold) <= wl

\* the filter condition of the first loop
Eligible(c, wl) ==
    /\ c.count > 0
    /\ c.threshold > 0
    /\ c.discount > 0
    /\ Round100(c.threshold) <= wl

RECURSIVE FilterValid(_, _)
FilterValid(cs, wl) ==
    IF cs = <<>> THEN <<>>
    ELSE IF Eligible(Head(cs), wl)
         THEN <<Head(cs)>> \o FilterValid(Tail(cs), wl)
         ELSE FilterValid(Tail(cs), wl)

\* variant of SumPossibleCost: the count is left out of the sum
RECURSIVE SumPossibleCostNoCount(_)
SumPossibleCostNoCount(vs) ==
    IF vs = <<>> THEN 0
    ELSE Round100(Head(vs).threshold) + SumPossibleCostNoCount(Tail(vs))

RECURSIVE SumPossibleCost(_)
SumPossibleCost(vs) ==
    IF vs = <<>> THEN 0
    ELSE Round100(Head(vs).threshold) * Head(vs).count + SumPossibleCost(Tail(vs))

RECURSIVE FoldGcd(_, _)
FoldGcd(acc, vs) ==
    IF vs = <<>> THEN acc
    ELSE FoldGcd(gcd(acc, Round100(Head(vs).threshold)), Tail(vs))

\* variant of ReducedCost: the cost is not divided by the common factor
ReducedCostUndivided(c, cf) == Round100(c.threshold)

\* cost of a valid coupon inside the expansion loop
ReducedCost(c, cf) ==
    IF cf > 1 THEN Round100(c.threshold) \div cf ELSE Round100(c.threshold)

ScaledVal(c) == Round100(c.discount)

MakeItem(c, cf, q) ==
    [cost |-> ReducedCost(c, cf) * q,
     val |-> ScaledVal(c) * q,
     originalCouponId |-> c.id,
     realCount |-> q]

\* variant of PushRemainder: the remainder item stands for currentPower units
PushRemainderPow(its, c, cf, cnt, pow) ==
    IF cnt > 0 THEN Append(its, MakeItem(c, cf, pow)) ELSE its

\* lines 99-106: the remainder item
PushRemainder(its, c, cf, cnt, pow) ==
    IF cnt > 0 THEN Append(its, MakeItem(c, cf, cnt)) ELSE its

\* variant of OverLimit: the limit is tested on the unreduced capacity
OverLimitUnreduced(cap, wl) == wl > MAX_SLOTS

\* line 110: the memory limit on the reduced capacity
OverLimit(cap, wl) == cap > MAX_SLOTS

\* variant of KeepIndex: rows of W cells instead of W + 1
KeepIndexStride(it, ww, cap) == it * cap + ww

\* flat index into keep; it and ww are 0-based as in the code
KeepIndex(it, ww, cap) == it * (cap + 1) + ww

\* variant of InnerLoop: w runs upwards from cost to W, so that dp[w - cost]
\* may already hold the item
RECURSIVE LoopUp(_, _, _, _, _, _, _)
LoopUp(d, k, ww, cost, val, it, cap) ==
    IF ww > cap THEN [dp |-> d, keep |-> k]
    ELSE IF ExceedsInt32(d[ww - cost], val) \/ d[ww - cost] + val > d[ww]
         THEN LoopUp([d EXCEPT ![ww] = StoreInt32(d[ww - cost], val)],
                     k \cup {it * (cap + 1) + ww}, ww + 1, cost, val, it, cap)
         ELSE LoopUp(d, k, ww + 1, cost, val, it, cap)

InnerLoopUp(d, k, ww, cost, val, it, cap) ==
    IF cost < 0 THEN [dp |-> d, keep |-> k] ELSE LoopUp(d, k, cost, cost, val, it, cap)

\* the inner loop: for (let w = from; w >= cost; w--); includeVal is the
\* number dp[w - cost] + val, compared before the store truncates it
RECURSIVE InnerLoop(_, _, _, _, _, _, _)
InnerLoop(d, k, ww, cost, val, it, cap) ==
    IF ww < cost THEN [dp |-> d, keep |-> k]
    ELSE IF ExceedsInt32(d[ww - cost], val) \/ d[ww - cost] + val > d[ww]
         THEN InnerLoop([d EXCEPT ![ww] = StoreInt32(d[ww - cost], val)],
                        k \cup {KeepIndex(it, ww, cap)}, ww - 1, cost, val, it, cap)
         ELSE InnerLoop(d, k, ww - 1, cost, val, it, cap)

\* usedCouponsMap.get(id) || 0
MapGet(m, id) ==
    IF \E j \in 1..Len(m) : m[j].couponId = id
    THEN (CHOOSE e \in {m[j] : j \in 1..Len(m)} : e.couponId = id).count
    ELSE 0

\* usedCouponsMap.set(id, n): in place when the key exists, else appended
MapSet(m, id, n) ==
    IF \E j \in 1..Len(m) : m[j].couponId = id
    THEN [j \in 1..Len(m) |->
            IF m[j].couponId = id THEN [couponId |-> id, count |-> n] ELSE m[j]]
    ELSE Append(m, [couponId |-> id, count |-> n])

FullUse(vs) == [j \in 1..Len(vs) |-> [couponId |-> vs[j].id, count |-> vs[j].count]]

\* variant of SumScaledDiscount: the count is left out of the sum
RECURSIVE SumScaledDiscountNoCount(_)
SumScaledDiscountNoCount(vs) ==
    IF vs = <<>> THEN 0
    ELSE ScaledVal(Head(vs)) + SumScaledDiscountNoCount(Tail(vs))

RECURSIVE SumScaledDiscount(_)
SumScaledDiscount(vs) ==
    IF vs = <<>> THEN 0
    ELSE ScaledVal(Head(vs)) * Head(vs).count + SumScaledDiscount(Tail(vs))

ZeroResult(tp, warn) ==
    [returned |-> TRUE, totalOriginal |-> tp, totalDiscount |-> 0,
     finalPrice |-> tp, solution |-> <<>>, warning |-> warn]

MakeResult(tp, scaledDiscount, sol) ==
    [returned |-> TRUE, totalOriginal |-> tp,
     totalDiscount |-> Unscale(scaledDiscount),
     finalPrice |-> tp - Unscale(scaledDiscount),
     solution |-> sol, warning |-> ""]

-----------------------------------------------------------------------------
(* Inputs *)

\* raw amounts in mils: 4 is 0 cents when scaled, 15 is 2 cents, 25 is 3 cents
Thresholds == {4, 10, 15, 30}
Discounts == {10, 15}
Totals == {0, 4, 25, 40, 55}

Coupon(id, t, d, c) == [id |-> id, threshold |-> t, discount |-> d, count |-> c]

\* threshold, discount, count of the coupons enumerated: every combination of
\* these thresholds and discounts with a positive count, one coupon for each
\* field the filter rejects, and one whose discount rounds to 0 cents
CouponFields ==
    (Thresholds \X Discounts \X (1..MaxCount))
    \cup {<<0, 10, 1>>, <<10, 0, 1>>, <<10, 10, 0>>, <<10, 4, 2>>}

\* the lists of n coupons with ids 1..n and fields f[1], ..., f[n]
SmallList(n, f) == [k \in 1..n |-> Coupon(k, f[k][1], f[k][2], f[k][3])]

\* single inputs, beside the enumerated ones
Scenarios ==
    <<
      \* a coupon worth more than the cart
      [total |-> 50000, coupons |-> <<Coupon(1, 50000, 100000, 1)>>],
      \* a total of 0.996, which is 100 cents when scaled, and a threshold of 1.00
      [total |-> 996, coupons |-> <<Coupon(1, 1000, 100, 1)>>],
      \* a coupon without a minimum spend
      [total |-> 50000, coupons |-> <<Coupon(1, 0, 5000, 1), Coupon(2, 30000, 1000, 1)>>],
      \* Scenario A of the specification
      [total |-> 100000, coupons |-> <<Coupon(1, 50000, 10000, 1), Coupon(2, 60000, 15000, 1)>>],
      \* Scenario B
      [total |-> 200000, coupons |-> <<Coupon(1, 50000, 5000, 10)>>],
      \* a large total that the GCD brings down to W = 3
      [total |-> 60000000, coupons |-> <<Coupon(1, 40000000, 1000, 2)>>],
      \* large totals whose reduced capacity stays above MAX_SLOTS
      [total |-> 60000010, coupons |-> <<Coupon(1, 40000000, 1000, 2)>>],
      [total |-> 50000010, coupons |-> <<Coupon(1, 30000010, 1000, 2)>>],
      \* a large total on the trivial path
      [total |-> 60000010, coupons |-> <<Coupon(1, 10, 10, 1)>>],
      \* three and four coupons
      [total |-> 100, coupons |-> <<Coupon(1, 30, 40, 3), Coupon(2, 40, 50, 2), Coupon(3, 50, 70, 1)>>],
      [total |-> 90, coupons |-> <<Coupon(1, 20, 10, 3), Coupon(2, 40, 30, 2), Coupon(3, 60, 40, 2)>>],
      [total |-> 110, coupons |-> <<Coupon(1, 20, 30, 2), Coupon(2, 30, 40, 3),
                                     Coupon(3, 50, 80, 1), Coupon(4, 70, 100, 2)>>],
      \* two coupons sharing one id
      [total |-> 50, coupons |-> <<Coupon(1, 10, 10, 3), Coupon(1, 30, 40, 1)>>],
      [total |-> 50, coupons |-> <<Coupon(1, 30, 40, 1), Coupon(1, 10, 10, 3)>>],
      [total |-> 50, coupons |-> <<Coupon(1, 30, 10, 1), Coupon(1, 10, 10, 1)>>],
      \* amounts that are all multiples of 0.10
      [total |-> 600, coupons |-> <<Coupon(1, 200, 50, 2), Coupon(2, 300, 80, 2)>>],
      [total |-> 500, coupons |-> <<Coupon(1, 100, 30, 3), Coupon(2, 200, 70, 2),
                                     Coupon(3, 300, 90, 1)>>]
    >>

\* totals and counts of the inputs with one coupon of a larger count
BigCountTotals == {40, 70}
BigCounts == (MaxCount + 1)..MaxBigCount

\* Calls whose discounts are large enough for sums of scaled discounts to
\* pass 2^31 - 1 cents (21,474,836.47 currency units), and calls with the same
\* coupons that end in the early return, the trivial case, the warning and a
\* DP run without large sums. The amounts are such that every number of the
\* run, as the code computes it, fits the integers of TLC.
LargeDiscountScenarios ==
    << \* cart 20.00, coupon of 2,100,000.00 off 1.00, 21 of them
       [total |-> 20000, coupons |-> <<Coupon(1, 1000, 2100000000, 21)>>],
       [total |-> 21000, coupons |-> <<Coupon(1, 1000, 2100000000, 22)>>],
       [total |-> 21000, coupons |-> <<Coupon(1, 1000, 2000000000, 22)>>],
       [total |-> 22000, coupons |-> <<Coupon(1, 1000, 2000000000, 23)>>],
       [total |-> 28000, coupons |-> <<Coupon(1, 1000, 1500000000, 29)>>],
       [total |-> 20000, coupons |-> <<Coupon(1, 1000, 2100000000, 15),
                                       Coupon(2, 1000, 2100000000, 6)>>],
       [total |-> 21000, coupons |-> <<Coupon(1, 1000, 2100000000, 15),
                                       Coupon(2, 1000, 2100000000, 7)>>],
       \* one use fits: DP without a large sum
       [total |-> 1000, coupons |-> <<Coupon(1, 1000, 2100000000, 2)>>],
       \* trivial case, early return, warning
       [total |-> 20000, coupons |-> <<Coupon(1, 1000, 2100000000, 1)>>],
       [total |-> 0, coupons |-> <<Coupon(1, 1000, 2100000000, 1)>>],
       [total |-> 60000010, coupons |-> <<Coupon(1, 50000010, 2100000000, 2)>>]
    >>

-----------------------------------------------------------------------------
(* State machine *)

\* the locals before the first statement
InitLocals ==
    /\ pc = "start"
    /\ W_limit = 0
    /\ validCoupons = <<>>
    /\ totalPossibleCost = 0
    /\ W = 0
    /\ commonFactor = 0
    /\ items = <<>>
    /\ ci = 0
    /\ count = 0
    /\ currentPower = 0
    /\ dp = <<>>
    /\ keep = {}
    /\ i = 0
    /\ currW = 0
    /\ usedCouponsMap = <<>>
    /\ result = NoResult

Init ==
    /\ \/ \E k \in 1..Len(Scenarios) :
             coupons = Scenarios[k].coupons /\ totalPrice = Scenarios[k].total
       \/ \E t \in BigCountTotals, c \in BigCounts :
             coupons = <<Coupon(1, 10, 10, c)>> /\ totalPrice = t
       \/ \E t \in Totals, n \in 0..MaxCoupons :
             \E f \in [1..n -> CouponFields] :
                 coupons = SmallList(n, f) /\ totalPrice = t
    /\ InitLocals

\* calls with discounts of millions of currency units
InitInt32 ==
    /\ \E k \in 1..Len(LargeDiscountScenarios) :
          /\ coupons = LargeDiscountScenarios[k].coupons
          /\ totalPrice = LargeDiscountScenarios[k].total
    /\ InitLocals

\* lines 14-21: the guard on the arguments
EarlyReturn ==
    /\ pc = "start"
    /\ (Len(coupons) = 0 \/ totalPrice <= 0)
    /\ result' = ZeroResult(totalPrice, "")
    /\ pc' = "done"
    /\ UNCHANGED <<coupons, totalPrice, W_limit, validCoupons, totalPossibleCost, W,
                   commonFactor, items, ci, count, currentPower, dp, keep, i, currW,
                   usedCouponsMap>>

\* lines 23-38: setup and filtering
Filter ==
    /\ pc = "start"
    /\ ~(Len(coupons) = 0 \/ totalPrice <= 0)
    /\ W_limit' = Round100(totalPrice)
    /\ validCoupons' = FilterValid(coupons, Round100(totalPrice))
    /\ totalPossibleCost' = SumPossibleCost(FilterValid(coupons, Round100(totalPrice)))
    /\ pc' = "trivial"
    /\ UNCHANGED <<coupons, totalPrice, W, commonFactor, items, ci, count,
                   currentPower, dp, keep, i, currW, usedCouponsMap, result>>

\* lines 43-59: the trivial case
TrivialCase ==
    /\ pc = "trivial"
    /\ totalPossibleCost <= W_limit
    /\ result' = MakeResult(totalPrice, SumScaledDiscount(validCoupons), FullUse(validCoupons))
    /\ pc' = "done"
    /\ UNCHANGED <<coupons, totalPrice, W_limit, validCoupons, totalPossibleCost, W,
                   commonFactor, items, ci, count, currentPower, dp, keep, i, currW,
                   usedCouponsMap>>

\* lines 64-76 and the entry of the expansion loop (79-88)
GcdReduction ==
    /\ pc = "trivial"
    /\ ~(totalPossibleCost <= W_limit)
    /\ LET cf == FoldGcd(W_limit, validCoupons) IN
        /\ commonFactor' = cf
        /\ W' = IF cf > 1 THEN W_limit \div cf ELSE W_limit
    /\ items' = <<>>
    /\ ci' = 1
    /\ count' = validCoupons[1].count
    /\ currentPower' = 1
    /\ pc' = "expand"
    /\ UNCHANGED <<coupons, totalPrice, W_limit, validCoupons, totalPossibleCost,
                   dp, keep, i, currW, usedCouponsMap, result>>

\* lines 89-98: one iteration of while (count >= currentPower)
ExpandPush ==
    /\ pc = "expand"
    /\ count >= currentPower
    /\ items' = Append(items, MakeItem(validCoupons[ci], commonFactor, currentPower))
    /\ count' = count - currentPower
    /\ currentPower' = currentPower * 2
    /\ UNCHANGED <<coupons, totalPrice, pc, W_limit, validCoupons, totalPossibleCost,
                   W, commonFactor, ci, dp, keep, i, currW, usedCouponsMap, result>>

\* lines 99-107: the remainder item, then the next coupon of the for loop
ExpandRemainder ==
    /\ pc = "expand"
    /\ ~(count >= currentPower)
    /\ items' = PushRemainder(items, validCoupons[ci], commonFactor, count, currentPower)
    /\ IF ci < Len(validCoupons)
       THEN /\ ci' = ci + 1
            /\ count' = validCoupons[ci + 1].count
            /\ currentPower' = 1
            /\ pc' = "expand"
       ELSE /\ pc' = "guard"
            /\ UNCHANGED <<ci, count, currentPower>>
    /\ UNCHANGED <<coupons, totalPrice, W_limit, validCoupons, totalPossibleCost,
                   W, commonFactor, dp, keep, i, currW, usedCouponsMap, result>>

\* lines 110-118: the memory limit
MemoryLimit ==
    /\ pc = "guard"
    /\ OverLimit(W, W_limit)
    /\ result' = ZeroResult(totalPrice, WARNING)
    /\ pc' = "done"
    /\ UNCHANGED <<coupons, totalPrice, W_limit, validCoupons, totalPossibleCost, W,
                   commonFactor, items, ci, count, currentPower, dp, keep, i, currW,
                   usedCouponsMap>>

\* lines 127-138: allocation of dp and keep
Allocate ==
    /\ pc = "guard"
    /\ ~OverLimit(W, W_limit)
    /\ dp' = [ww \in 0..W |-> 0]
    /\ keep' = {}
    /\ i' = 0
    /\ pc' = "dp"
    /\ UNCHANGED <<coupons, totalPrice, W_limit, validCoupons, totalPossibleCost, W,
                   commonFactor, items, ci, count, currentPower, currW,
                   usedCouponsMap, result>>

\* lines 141-150: one iteration of the outer loop (the whole inner loop)
DPItem ==
    /\ pc = "dp"
    /\ i < Len(items)
    /\ LET r == InnerLoop(dp, keep, W, items[i + 1].cost, items[i + 1].val, i, W) IN
        /\ dp' = r.dp
        /\ keep' = r.keep
    /\ i' = i + 1
    /\ UNCHANGED <<coupons, totalPrice, pc, W_limit, validCoupons, totalPossibleCost,
                   W, commonFactor, items, ci, count, currentPower, currW,
                   usedCouponsMap, result>>

\* lines 153-155 and the entry of the reconstruction loop
BeginReconstruction ==
    /\ pc = "dp"
    /\ ~(i < Len(items))
    /\ usedCouponsMap' = <<>>
    /\ currW' = W
    /\ i' = Len(items) - 1
    /\ pc' = "reconstruct"
    /\ UNCHANGED <<coupons, totalPrice, W_limit, validCoupons, totalPossibleCost, W,
                   commonFactor, items, ci, count, currentPower, dp, keep, result>>

\* lines 169-179: one iteration of the reconstruction loop
ReconstructStep ==
    /\ pc = "reconstruct"
    /\ i >= 0
    /\ IF KeepIndex(i, currW, W) \in keep
       THEN LET item == items[i + 1]
                currentCount == MapGet(usedCouponsMap, item.originalCouponId)
            IN /\ usedCouponsMap' = MapSet(usedCouponsMap, item.originalCouponId,
                                           currentCount + item.realCount)
               /\ currW' = currW - item.cost
       ELSE UNCHANGED <<usedCouponsMap, currW>>
    /\ i' = i - 1
    /\ UNCHANGED <<coupons, totalPrice, pc, W_limit, validCoupons, totalPossibleCost,
                   W, commonFactor, items, ci, count, currentPower, dp, keep, result>>

\* lines 184-199: the result
FormatResult ==
    /\ pc = "reconstruct"
    /\ ~(i >= 0)
    /\ result' = MakeResult(totalPrice, dp[W], usedCouponsMap)
    /\ pc' = "done"
    /\ UNCHANGED <<coupons, totalPrice, W_limit, validCoupons, totalPossibleCost, W,
                   commonFactor, items, ci, count, currentPower, dp, keep, i, currW,
                   usedCouponsMap>>

Next ==
    \/ EarlyReturn
    \/ Filter
    \/ TrivialCase
    \/ GcdReduction
    \/ ExpandPush
    \/ ExpandRemainder
    \/ MemoryLimit
    \/ Allocate
    \/ DPItem
    \/ BeginReconstruction
    \/ ReconstructStep
    \/ FormatResult

Spec == Init /\ [][Next]_vars

\* the same program on the calls of InitInt32
SpecInt32 == InitInt32 /\ [][Next]_vars

-----------------------------------------------------------------------------
(* Vocabulary of the properties *)

Returned == result.returned

DistinctIds ==
    \A a, b \in 1..Len(coupons) : a # b => coupons[a].id # coupons[b].id

PositiveCounts == \A a \in 1..Len(coupons) : coupons[a].count > 0

\* the coupon an id names: state.coupons.find(c => c.id === usage.couponId)
FindCoupon(id) ==
    coupons[CHOOSE a \in 1..Len(coupons) :
                /\ coupons[a].id = id
                /\ \A b \in 1..(a - 1) : coupons[b].id # id]

RECURSIVE SeqSum(_)
SeqSum(ns) == IF ns = <<>> THEN 0 ELSE Head(ns) + SeqSum(Tail(ns))

SetMax(S) == CHOOSE x \in S : \A y \in S : y <= x

\* the scaled capacity and the eligibility of the specification, from the arguments
ScaledTotal == Round100(totalPrice)

IsEligible(c) ==
    /\ c.count > 0
    /\ c.threshold > 0
    /\ c.discount > 0
    /\ Round100(c.threshold) <= ScaledTotal

EligibleCoupons == SelectSeq(coupons, IsEligible)

EligibleCost ==
    SeqSum([j \in 1..Len(EligibleCoupons) |->
              Round100(EligibleCoupons[j].threshold) * EligibleCoupons[j].count])

\* the call reaches the DP stages
OnDPPath == totalPrice > 0 /\ Len(coupons) > 0 /\ EligibleCost > ScaledTotal

\* the capacity after division by the gcd of the capacity and the eligible thresholds
ReducedCapacity ==
    LET g == FoldGcd(ScaledTotal, EligibleCoupons)
    IN IF g > 1 THEN ScaledTotal \div g ELSE ScaledTotal

NoDPRun == DOMAIN dp = {} /\ items = <<>> /\ keep = {}

\* the best total scaled discount over all quantities q_j in 0..count_j of the
\* coupons cs whose scaled thresholds add up to at most cap
RECURSIVE BruteForce(_, _)
BruteForce(cs, cap) ==
    IF cs = <<>> THEN 0
    ELSE LET c == Head(cs) IN
         SetMax({q * Round100(c.discount)
                   + BruteForce(Tail(cs), cap - q * Round100(c.threshold)) :
                 q \in {q \in 0..c.count : q * Round100(c.threshold) <= cap}})

HasPositiveThreshold(c) == c.threshold > 0

\* what the solution spends, in raw amounts and in scaled amounts
SolutionRawCost ==
    SeqSum([j \in 1..Len(result.solution) |->
              result.solution[j].count * FindCoupon(result.solution[j].couponId).threshold])

SolutionScaledCost ==
    SeqSum([j \in 1..Len(result.solution) |->
              result.solution[j].count
                * Round100(FindCoupon(result.solution[j].couponId).threshold)])

SolutionScaledDiscount ==
    SeqSum([j \in 1..Len(result.solution) |->
              result.solution[j].count
                * Round100(FindCoupon(result.solution[j].couponId).discount)])

-----------------------------------------------------------------------------
(* C1 *)

-----------------------------------------------------------------------------
(* C2 *)

\* C2 as stated: the thresholds of the solution, each times its usage count,
\* add up to at most the cart total.
C2_RawCostWithinTotal ==
    Returned => SolutionRawCost <= totalPrice

\* C2 (amended): for coupons with distinct ids, the scaled thresholds of the
\* solution, each times its usage count, add up to at most the scaled total.
C2_ScaledCostWithinScaledTotal ==
    (Returned /\ DistinctIds) => SolutionScaledCost <= ScaledTotal

\* a solution that uses the scaled capacity to the last cent, from the DP
\* and from the trivial case
C2_Witness ==
    /\ Returned /\ DistinctIds
    /\ result.solution # <<>>
    /\ SolutionScaledCost = ScaledTotal
    /\ SolutionRawCost <= totalPrice
    /\ DOMAIN dp # {}

-----------------------------------------------------------------------------
(* C3 *)

\* C3: for coupons with distinct ids, every usage count of the solution is
\* between 0 and the count of the coupon it names.
C3_UsageWithinCount ==
    (Returned /\ DistinctIds)
        => \A j \in 1..Len(result.solution) :
             /\ \E a \in 1..Len(coupons) : coupons[a].id = result.solution[j].couponId
             /\ result.solution[j].count >= 0
             /\ result.solution[j].count <= FindCoupon(result.solution[j].couponId).count

\* the backtrace adds two pseudo-items of one coupon up to its full count
C3_Witness ==
    /\ Returned /\ DistinctIds
    /\ DOMAIN dp # {}
    /\ \E j \in 1..Len(result.solution) :
         /\ result.solution[j].count >= 3
         /\ result.solution[j].count = FindCoupon(result.solution[j].couponId).count

-----------------------------------------------------------------------------
(* C4 *)

\* C4: for a total >= 0, totalDiscount <= totalOriginal and finalPrice >= 0.
C4_DiscountWithinTotal ==
    (Returned /\ totalPrice >= 0)
        => /\ result.totalDiscount <= result.totalOriginal
           /\ result.finalPrice >= 0

-----------------------------------------------------------------------------
(* C5 *)

TrivialOutcome ==
    /\ result.solution =
         [j \in 1..Len(EligibleCoupons) |->
            [couponId |-> EligibleCoupons[j].id, count |-> EligibleCoupons[j].count]]
    /\ result.totalDiscount =
         Unscale(SeqSum([j \in 1..Len(EligibleCoupons) |->
                           Round100(EligibleCoupons[j].discount) * EligibleCoupons[j].count]))
    /\ NoDPRun

\* C5 as stated: when the eligible coupons at full count fit the scaled total,
\* the solution is every eligible coupon at its full count and no other, the
\* discount is the direct sum, and no DP is run.
C5_TrivialCase ==
    (Returned /\ EligibleCost <= ScaledTotal) => TrivialOutcome

\* C5 (amended): the same, for a cart total > 0.
C5_TrivialCasePositiveTotal ==
    (Returned /\ totalPrice > 0 /\ EligibleCost <= ScaledTotal) => TrivialOutcome

\* the trivial case returns the one eligible coupon of two at its full count of
\* two or more
C5_Witness ==
    /\ Returned /\ totalPrice > 0 /\ EligibleCost <= ScaledTotal
    /\ Len(coupons) = 2
    /\ Len(EligibleCoupons) = 1
    /\ Len(result.solution) = 1
    /\ result.solution[1].count > 1
    /\ result.totalDiscount > 0

-----------------------------------------------------------------------------
(* C6 *)

Degenerate ==
    \/ totalPrice <= 0
    \/ Len(coupons) = 0
    \/ \A a \in 1..Len(coupons) : ~IsEligible(coupons[a])

\* C6: for a total <= 0, an empty list, or a list with no eligible coupon, the
\* result is a zero discount, an empty solution and finalPrice = totalOriginal
\* = the total, and no DP is run.
C6_DegenerateInput ==
    (Returned /\ Degenerate)
        => /\ result.totalDiscount = 0
           /\ result.solution = <<>>
           /\ result.finalPrice = totalPrice
           /\ result.totalOriginal = totalPrice
           /\ NoDPRun

\* a positive total with coupons none of which passes the filter
C6_Witness ==
    /\ Returned /\ Degenerate
    /\ totalPrice > 0
    /\ Len(coupons) = 2
    /\ \E a \in 1..2 : coupons[a].count > 0 /\ coupons[a].threshold > 0
                       /\ coupons[a].discount > 0

-----------------------------------------------------------------------------
(* C7 *)

\* C7: a warning is returned exactly when the call reaches the DP path with a
\* reduced capacity above MAX_SLOTS, and then the solution is empty, the
\* discount 0 and finalPrice = totalOriginal; dp is allocated only for a
\* reduced capacity of at most MAX_SLOTS.
C7_WarningOnlyAboveCeiling ==
    /\ Returned =>
         /\ (result.warning # "") <=> (OnDPPath /\ ReducedCapacity > MAX_SLOTS)
         /\ (result.warning # "") =>
              /\ result.solution = <<>>
              /\ result.totalDiscount = 0
              /\ result.finalPrice = result.totalOriginal
              /\ DOMAIN dp = {}
    /\ (DOMAIN dp # {}) =>
         /\ ReducedCapacity <= MAX_SLOTS
         /\ W = ReducedCapacity
         /\ DOMAIN dp = 0..W

\* a warning is returned
C7_Witness ==
    /\ Returned
    /\ result.warning # ""
    /\ ReducedCapacity > MAX_SLOTS

-----------------------------------------------------------------------------
(* C8 *)

ScenarioA ==
    /\ totalPrice = 100000
    /\ coupons = <<Coupon(1, 50000, 10000, 1), Coupon(2, 60000, 15000, 1)>>

\* C8 as stated: Scenario A returns the first coupon only, totalDiscount = 10
\* and finalPrice = 90.
C8_ScenarioAFirstCoupon ==
    (Returned /\ ScenarioA)
        => /\ result.solution = <<[couponId |-> 1, count |-> 1]>>
           /\ result.totalDiscount = 10000
           /\ result.finalPrice = 90000

\* C8 (amended): Scenario A returns the second coupon only, totalDiscount = 15
\* and finalPrice = 85.
C8_ScenarioASecondCoupon ==
    (Returned /\ ScenarioA)
        => /\ result.solution = <<[couponId |-> 2, count |-> 1]>>
           /\ result.totalDiscount = 15000
           /\ result.finalPrice = 85000

\* Scenario A has returned
C8_Witness == Returned /\ ScenarioA /\ DOMAIN dp # {}

-----------------------------------------------------------------------------
(* C9 *)

WalkStaysInTable == (pc \in {"reconstruct", "done"}) => (currW >= 0 /\ currW <= W)

-----------------------------------------------------------------------------
(* C10 *)

RECURSIVE Pow2(_)
Pow2(n) == IF n = 0 THEN 1 ELSE 2 * Pow2(n - 1)

RECURSIVE SubsetSums(_)
SubsetSums(qs) ==
    IF qs = <<>> THEN {0}
    ELSE LET r == SubsetSums(Tail(qs)) IN r \cup {x + Head(qs) : x \in r}

\* the number of leading items whose realCount adds up to need, -1 if none does
RECURSIVE ChunkLen(_, _)
ChunkLen(its, need) ==
    IF need = 0 THEN 0
    ELSE IF its = <<>> \/ Head(its).realCount > need \/ Head(its).realCount < 1 THEN -1
    ELSE LET r == ChunkLen(Tail(its), need - Head(its).realCount)
         IN IF r < 0 THEN -1 ELSE r + 1

\* the items ch are a binary decomposition of the coupon c
GoodChunk(ch, c, cf) ==
    LET qs == [j \in 1..Len(ch) |-> ch[j].realCount] IN
    /\ \A j \in 1..(Len(ch) - 1) : qs[j] = Pow2(j - 1)
    /\ qs[Len(ch)] >= 1 /\ qs[Len(ch)] <= Pow2(Len(ch) - 1)
    /\ SeqSum(qs) = c.count
    /\ SubsetSums(qs) = 0..c.count
    /\ Round100(c.threshold) % cf = 0
    /\ \A j \in 1..Len(ch) :
         /\ ch[j].originalCouponId = c.id
         /\ ch[j].cost = qs[j] * (Round100(c.threshold) \div cf)
         /\ ch[j].val = qs[j] * Round100(c.discount)

\* the items its are, in order, a binary decomposition of each coupon of vs
RECURSIVE GoodItems(_, _, _)
GoodItems(its, vs, cf) ==
    IF vs = <<>> THEN its = <<>>
    ELSE LET k == ChunkLen(its, Head(vs).count) IN
         /\ k > 0
         /\ GoodChunk(SubSeq(its, 1, k), Head(vs), cf)
         /\ GoodItems(SubSeq(its, k + 1, Len(its)), Tail(vs), cf)

\* the state of the expansion loop: the last k items are 1, 2, ..., 2^(k-1) of
\* the current coupon, currentPower is 2^k, what is emitted and what is left
\* add up to the count, and the items before them decompose the coupons before
ExpandLoopState ==
    (pc = "expand") =>
        /\ ci \in 1..Len(validCoupons)
        /\ count >= 0
        /\ currentPower >= 1
        /\ \E k \in 0..Len(items) :
             /\ currentPower = Pow2(k)
             /\ count + currentPower - 1 = validCoupons[ci].count
             /\ \A j \in 1..k :
                  /\ items[Len(items) - k + j].realCount = Pow2(j - 1)
                  /\ items[Len(items) - k + j].originalCouponId = validCoupons[ci].id
             /\ GoodItems(SubSeq(items, 1, Len(items) - k),
                          SubSeq(validCoupons, 1, ci - 1), commonFactor)

\* each step of the expansion loop uses up some of the count or moves on to the
\* next coupon
ExpandLoopProgress ==
    (pc = "expand" /\ pc' = "expand")
        => \/ ci' = ci /\ count' < count /\ Len(items') = Len(items) + 1
           \/ ci' = ci + 1

\* C10: the expansion loop terminates, and for every valid coupon the pseudo-
\* items emitted stand for 1, 2, 4, ... and a non-zero remainder, which add up
\* to the count and whose subset sums are exactly 0..count; cost and value of
\* an item are its quantity times the reduced cost and the scaled discount.
C10_BinaryDecomposition ==
    /\ [](ExpandLoopState)
    /\ []((pc \in {"guard", "dp", "reconstruct"} \/ (pc = "done" /\ commonFactor > 0))
            => GoodItems(items, validCoupons, commonFactor))
    /\ [][ExpandLoopProgress]_vars

\* a coupon of count 9 is expanded into 1, 2, 4 and the remainder 2
C10_Witness ==
    /\ pc = "guard"
    /\ Len(items) = 4
    /\ items[3].realCount = 4
    /\ items[4].realCount = 2
    /\ validCoupons[1].count = 9

-----------------------------------------------------------------------------
(* C11 *)

\* the quantities of the binary decomposition of a count: powers of two from
\* pow on while they fit, then the remainder
RECURSIVE Quantities(_, _)
Quantities(cnt, pow) ==
    IF cnt >= pow THEN <<pow>> \o Quantities(cnt - pow, pow * 2)
    ELSE IF cnt > 0 THEN <<cnt>> ELSE <<>>

\* the pseudo-items of the coupons vs with their thresholds left undivided
RECURSIVE UnreducedItems(_)
UnreducedItems(vs) ==
    IF vs = <<>> THEN <<>>
    ELSE LET c == Head(vs)
             qs == Quantities(c.count, 1)
         IN [j \in 1..Len(qs) |->
               [cost |-> Round100(c.threshold) * qs[j],
                val |-> Round100(c.discount) * qs[j],
                originalCouponId |-> c.id,
                realCount |-> qs[j]]]
            \o UnreducedItems(Tail(vs))

\* the outer loop of the DP over the items its from index it on, capacity cap
RECURSIVE RunDP(_, _, _, _)
RunDP(d, its, it, cap) ==
    IF it >= Len(its) THEN d
    ELSE RunDP(InnerLoop(d, {}, cap, its[it + 1].cost, its[it + 1].val, it, cap).dp,
               its, it + 1, cap)

\* dp[W_limit] of the same DP on the unreduced capacity and thresholds
UnreducedOptimum ==
    RunDP([ww \in 0..W_limit |-> 0], UnreducedItems(validCoupons), 0, W_limit)[W_limit]

\* the quantities of the valid coupons, each within its count
Selections ==
    [1..Len(validCoupons) -> 0..SetMax({0} \cup {validCoupons[j].count :
                                                  j \in 1..Len(validCoupons)})]

WithinCounts(q) == \A j \in 1..Len(validCoupons) : q[j] <= validCoupons[j].count

FeasibleReduced ==
    {q \in Selections :
       /\ WithinCounts(q)
       /\ SeqSum([j \in 1..Len(validCoupons) |->
                    q[j] * ReducedCost(validCoupons[j], commonFactor)]) <= W}

FeasibleUnreduced ==
    {q \in Selections :
       /\ WithinCounts(q)
       /\ SeqSum([j \in 1..Len(validCoupons) |->
                    q[j] * Round100(validCoupons[j].threshold)]) <= W_limit}

\* the reduced capacity and the reduced costs are exact quotients
ExactQuotients ==
    /\ commonFactor >= 1
    /\ W_limit % commonFactor = 0
    /\ W = W_limit \div commonFactor
    /\ \A j \in 1..Len(validCoupons) :
         /\ Round100(validCoupons[j].threshold) % commonFactor = 0
         /\ ReducedCost(validCoupons[j], commonFactor)
              = Round100(validCoupons[j].threshold) \div commonFactor
    /\ \A j \in 1..Len(items) :
         \E a \in 1..Len(validCoupons) :
           /\ items[j].originalCouponId = validCoupons[a].id
           /\ items[j].cost
                = (Round100(validCoupons[a].threshold) \div commonFactor)
                    * items[j].realCount
           /\ items[j].val = Round100(validCoupons[a].discount) * items[j].realCount

\* C11: with g the gcd of the scaled capacity and the eligible scaled
\* thresholds, the capacity and the costs divided by g are exact quotients, the
\* selections that fit the reduced capacity are those that fit the unreduced
\* one, and the DP on the reduced capacity returns the totalDiscount of the
\* same DP on the unreduced capacity and thresholds (capacities up to
\* MaxUnreducedCapacity); the values are not divided. The first part is stated
\* where the expansion has ended: nothing it reads changes afterwards.
C11_GcdReductionExact ==
    /\ pc = "guard"
         => /\ commonFactor = FoldGcd(W_limit, validCoupons)
            /\ ExactQuotients
            /\ FeasibleReduced = FeasibleUnreduced
    /\ (Returned /\ DOMAIN dp # {} /\ W_limit <= MaxUnreducedCapacity)
         => /\ dp[W] = UnreducedOptimum
            /\ result.totalDiscount = Unscale(UnreducedOptimum)

\* a DP run whose capacity of 60 cents was divided by 10
C11_Witness ==
    /\ Returned /\ DOMAIN dp # {}
    /\ commonFactor = 10
    /\ W_limit = 60 /\ W = 6
    /\ result.totalDiscount = 160
    /\ Cardinality(FeasibleReduced) > 1

-----------------------------------------------------------------------------
(* C12 *)

\* the item the next iteration of the outer loop of the DP takes
NextItem == items[i + 1]

\* every sum dp[w - cost] + val the next iteration computes is at most 2^31 - 1
\* (the inner loop reads dp[w - cost] before it writes a cell below w)
NextSumsWithinInt32 ==
    \A ww \in NextItem.cost..W : dp[ww - NextItem.cost] <= Int32Max - NextItem.val

\* C12: on the DP path every value stored in dp, dp[w - cost] + val, stays
\* within the signed 32-bit range; no cell of dp is altered by wraparound, so
\* that no cell is negative and dp[W] is not below the value of any
\* single item that fits the capacity.
C12_DpWithinInt32 ==
    /\ (pc = "dp" /\ i < Len(items)) => NextSumsWithinInt32
    /\ pc \in {"dp", "reconstruct", "done"}
         => \A ww \in DOMAIN dp : dp[ww] >= 0
    /\ (Returned /\ DOMAIN dp # {})
         => \A j \in 1..Len(items) : items[j].cost <= W => dp[W] >= items[j].val

====
